---- MODULE Spec2Model ----
(***************************************************************************)
(* Model of the transactional business-rule layer of the library system    *)
(* (src/app.py): borrow_item, return_item, donate_item, register_event,    *)
(* cancel_event_registration, volunteer_event and pay_fine, each run as    *)
(* one `with conn:` unit of work against the relational store.             *)
(*                                                                         *)
(* A `with conn:` block commits when the body returns (also on an early    *)
(* `return handle_input_error(...)`) and rolls back when the body raises.  *)
(* handle_critical_error closes the connection and exits the process.      *)
(*                                                                         *)
(* The schema of library.db is not part of src/app.py.  What the store     *)
(* does on its own (the Item.BorrowingStatus maintenance, the uniqueness   *)
(* of the two event join tables) is modelled from the specification in     *)
(* the operators named Store_...                                           *)
(***************************************************************************)
EXTENDS Integers, Sequences, FiniteSets, TLC

\* ------------------------------------------------------------------ bounds
\* Largest number of Borrowing rows the model lets the store hold.
MaxBorrowings == 2
\* Largest FineAmount the store may hold on a Borrowing row.
MaxFineAmount == 1
\* The clock runs over the ticks 0..MaxNow.
MaxNow == 2
\* Clock ticks per calendar day; tick 0 of a day is midnight.
TicksPerDay == 2

\* Largest number of written rows in the specification of all operations.
MaxRows == 2

\* --------------------------------------------------------------- SQL NULL
\* A nullable column holds <<>> (NULL) or <<v>>.
NULL == <<>>
Some(v) == <<v>>
IsNull(x) == x = <<>>
Val(x) == x[1]

\* ------------------------------------------------------------------- state
VARIABLES
    Member,                  \* MemberID -> Status, for the rows of Member
    Item,                    \* sequence of Item rows; ItemID is the index
    Borrowing,               \* sequence of Borrowing rows; BorrowingID is the index
    Fine,                    \* sequence of Fine rows [MemberID, TotalFine]
    Donation,                \* sequence of Donation rows [MemberID, ItemID]
    Event,                   \* EventID -> [MaxCapacity, CurrentAttendees, Date]
    Event_Member,            \* <<EventID, MemberID>> -> number of rows
    Event_Member_Volunteer,  \* <<EventID, MemberID>> -> number of rows
    session_member,          \* the member id member_menu was entered with
    now,                     \* datetime.now(), in ticks
    conn,                    \* "open" | "closed"
    pc,                      \* where main is: "main" | "admin_login" | "admin_view"
                             \*                | "member_menu" | "exited"
    attempt,                 \* the codes read so far by the running admin_login
    last                     \* the last call: operation, arguments, outcome

vars == <<Member, Item, Borrowing, Fine, Donation, Event, Event_Member,
          Event_Member_Volunteer, session_member, now, conn, pc, attempt, last>>

loanTables == <<Item, Borrowing, Fine, Donation>>
eventTables == <<Event, Event_Member, Event_Member_Volunteer>>
mainState == <<pc, attempt>>

\* ------------------------------------------------------------------ inputs
\* Member ids a caller may present: 1 and 2 are Active, 3 is Inactive, 4 has no row.
MemberInputs == 1..4
\* Item ids a caller may present: every id that has a row, and one that has none.
ItemInputs == 1..(Len(Item) + 1)
\* Borrowing ids a caller may present: every id that has a row, and one that has none.
BorrowingInputs == 1..(Len(Borrowing) + 1)
\* Event ids a caller may present: 1 and 2 have rows, 3 has none.
EventInputs == 1..3
\* FineAmount values the store may hold on a Borrowing row.
FineAmounts == {NULL} \cup {Some(v) : v \in 0..MaxFineAmount}

\* ---------------------------------------------------------------- outcomes
\* Result codes of a call; Outcome classifies them as the caller sees them.
InputErrors == {"member_not_found", "member_inactive", "outstanding_fine",
                "item_not_found", "reference_only", "already_borrowed",
                "borrowing_not_found_or_returned", "title_empty", "invalid_type",
                "integrity_error", "event_not_found", "event_occurred",
                "not_registered", "cancel_failed", "full_capacity",
                "already_registered", "already_volunteering", "role_empty"}

Outcome(res) ==
    IF res = "ok" THEN "Success"
    ELSE IF res = "cancelled" THEN "False"
    ELSE IF res = "critical" THEN "Fatal"
    ELSE IF res \in InputErrors THEN "InputError"
    ELSE "None"

\* A failure of the store inside a unit of work: the write statement number
\* `write` of the call raises `exc`.  A call that executes fewer writes than
\* that raises nothing.
NoFault == [write |-> 0, exc |-> "none"]
Faults == {NoFault} \cup [write : 1..2, exc : {"IntegrityError", "OperationalError"}]
Raised(fault, writes) == fault.write \in 1..writes

\* The failure that took place in a call, if any.
Occurred(fault, writes) == IF Raised(fault, writes) THEN fault ELSE NoFault

\* The number of write statements completed when the unit of work ends.
Done(fault, writes) == IF Raised(fault, writes) THEN fault.write - 1 ELSE writes

\* What a call read from the user between entering `with conn:` and leaving
\* it; for admin_login, which has no unit of work, the codes typed so far.
Answer(prompt, answer) == [prompt |-> prompt, answer |-> answer]
NoInputs == << >>

\* input("Press Enter to return to menu...") of a handle_input_error that is
\* called inside the `with conn:` block.
Acknowledge(res) ==
    IF res \in InputErrors THEN << Answer("enter", "") >> ELSE NoInputs

Call(op, a, b, res, inputs, fault) ==
    [op |-> op, a |-> a, b |-> b, res |-> res, inputs |-> inputs, fault |-> fault]

\* `with conn:` on leaving the block: rollback when the body raised, commit
\* when it returned.  `before` is a table as the call found it, `written` the
\* table after the writes the body completed.
conn_exit_NoRollback(raised, before, written) == written

conn_exit(raised, before, written) == IF raised THEN before ELSE written

\* handle_input_error: prints, waits for Enter, returns None; the connection stays open.
handle_input_error == conn' = conn

\* A handler of critical errors that returns to the menu.
handle_critical_error_NoExit == conn' = conn

\* handle_critical_error: prints, closes the connection and exits the process.
handle_critical_error == conn' = "closed"

\* ------------------------------------------------------------------- Init
InitStore ==
    /\ Member = (1 :> "Active" @@ 2 :> "Active" @@ 3 :> "Inactive")
    /\ Item = << [BorrowingStatus |-> "Available", ReferenceOnly |-> FALSE, ISBN |-> Some("X")],
                 [BorrowingStatus |-> "Available", ReferenceOnly |-> TRUE, ISBN |-> NULL] >>
    /\ Borrowing = << >>
    /\ Fine = << >>
    /\ Donation = << >>
    /\ Event = (1 :> [MaxCapacity |-> 1, CurrentAttendees |-> 0, Date |-> 1]
             @@ 2 :> [MaxCapacity |-> 2, CurrentAttendees |-> 0, Date |-> 0])
    /\ Event_Member = [p \in (DOMAIN Event) \X MemberInputs |-> 0]
    /\ Event_Member_Volunteer = [p \in (DOMAIN Event) \X MemberInputs |-> 0]
    /\ now = 0
    /\ conn = "open"
    /\ last = Call("start", 0, 0, "none", NoInputs, NoFault)

\* A member session is open on the provisioned store.
Init ==
    /\ InitStore
    /\ session_member \in MemberInputs
    /\ pc = "member_menu"
    /\ attempt = 0

\* The program has started and main shows its menu; nobody is logged in.
InitMain ==
    /\ InitStore
    /\ session_member = 0
    /\ pc = "main"
    /\ attempt = 0

\* ------------------------------------------------------------ store (schema)
\* The store marks an Item Borrowed when a Borrowing row is inserted for it.
Store_OnBorrowingInsert(items, item_id) ==
    [items EXCEPT ![item_id].BorrowingStatus = "Borrowed"]

\* The store marks an Item Available when its Borrowing gets a return date.
Store_OnBorrowingReturn(items, item_id) ==
    [items EXCEPT ![item_id].BorrowingStatus = "Available"]

\* UNIQUE (EventID, MemberID) of Event_Member and of Event_Member_Volunteer:
\* an INSERT of a pair that already has a row raises sqlite3.IntegrityError.
Store_UniqueViolation(table, event_id, member_id) ==
    table[<<event_id, member_id>>] > 0

\* Item.ISBN is optional and carries no uniqueness: the store accepts the
\* INSERT of an Item whose ISBN another Item has.
Store_ISBNViolation(items, isbn) == FALSE

\* ------------------------------------------------------------------ queries
\* SELECT TotalFine FROM Fine WHERE MemberID = ?  followed by fetchone():
\* NULL when no row matches, else the first matching row's TotalFine.
FineRowsOf(member_id) == {k \in DOMAIN Fine : Fine[k].MemberID = member_id}

SelectTotalFine(member_id) ==
    IF FineRowsOf(member_id) = {} THEN NULL
    ELSE Some(Fine[CHOOSE k \in FineRowsOf(member_id) :
                     \A j \in FineRowsOf(member_id) : k <= j].TotalFine)

\* Open Borrowing rows (ReturnDate IS NULL) of an item.
OpenBorrowings(borrowing, item_id) ==
    {k \in DOMAIN borrowing :
        borrowing[k].ItemID = item_id /\ IsNull(borrowing[k].ReturnDate)}

\* datetime.now().strftime('%Y-%m-%d'): the calendar day of a tick.
Day(t) == t \div TicksPerDay

\* datetime.strptime(date, '%Y-%m-%d'): midnight of that day, in ticks.
Midnight(day) == day * TicksPerDay

\* -------------------------------------------------------------- borrow_item
\* borrow_item without the test of the item's status.
borrow_check_NoStatus(member_id, item_id) ==
    IF member_id \notin DOMAIN Member THEN "member_not_found"
    ELSE IF Member[member_id] # "Active" THEN "member_inactive"
    ELSE IF ~IsNull(SelectTotalFine(member_id)) /\ Val(SelectTotalFine(member_id)) > 0
         THEN "outstanding_fine"
    ELSE IF item_id \notin DOMAIN Item THEN "item_not_found"
    ELSE IF Item[item_id].ReferenceOnly THEN "reference_only"
    ELSE "ok"

\* borrow_item looking at the item before the member's fines.
borrow_check_ItemFirst(member_id, item_id) ==
    IF member_id \notin DOMAIN Member THEN "member_not_found"
    ELSE IF Member[member_id] # "Active" THEN "member_inactive"
    ELSE IF item_id \notin DOMAIN Item THEN "item_not_found"
    ELSE IF Item[item_id].ReferenceOnly THEN "reference_only"
    ELSE IF Item[item_id].BorrowingStatus = "Borrowed" THEN "already_borrowed"
    ELSE IF ~IsNull(SelectTotalFine(member_id)) /\ Val(SelectTotalFine(member_id)) > 0
         THEN "outstanding_fine"
    ELSE "ok"

\* borrow_item that lets a fine of one unit pass.
borrow_check_FineOffByOne(member_id, item_id) ==
    IF member_id \notin DOMAIN Member THEN "member_not_found"
    ELSE IF Member[member_id] # "Active" THEN "member_inactive"
    ELSE IF ~IsNull(SelectTotalFine(member_id)) /\ Val(SelectTotalFine(member_id)) > 1
         THEN "outstanding_fine"
    ELSE IF item_id \notin DOMAIN Item THEN "item_not_found"
    ELSE IF Item[item_id].ReferenceOnly THEN "reference_only"
    ELSE IF Item[item_id].BorrowingStatus = "Borrowed" THEN "already_borrowed"
    ELSE "ok"

\* borrow_item without the test of the reference-only flag.
borrow_check_NoReference(member_id, item_id) ==
    IF member_id \notin DOMAIN Member THEN "member_not_found"
    ELSE IF Member[member_id] # "Active" THEN "member_inactive"
    ELSE IF ~IsNull(SelectTotalFine(member_id)) /\ Val(SelectTotalFine(member_id)) > 0
         THEN "outstanding_fine"
    ELSE IF item_id \notin DOMAIN Item THEN "item_not_found"
    ELSE IF Item[item_id].BorrowingStatus = "Borrowed" THEN "already_borrowed"
    ELSE "ok"

\* The checks of borrow_item in the order of the code; "ok" when all pass.
\* The item checks of borrow_item, on the row SELECTed from the Item table.
item_check(items, item_id) ==
    IF item_id \notin DOMAIN items THEN "item_not_found"
    ELSE IF items[item_id].ReferenceOnly THEN "reference_only"
    ELSE IF items[item_id].BorrowingStatus = "Borrowed" THEN "already_borrowed"
    ELSE "ok"

borrow_check(member_id, item_id) ==
    IF member_id \notin DOMAIN Member THEN "member_not_found"
    ELSE IF Member[member_id] # "Active" THEN "member_inactive"
    ELSE IF ~IsNull(SelectTotalFine(member_id)) /\ Val(SelectTotalFine(member_id)) > 0
         THEN "outstanding_fine"
    ELSE item_check(Item, item_id)

\* timedelta(days=7)
loan_days == 7

\* Ticks that may pass between the two readings of the clock in borrow_item.
Elapsed == 0..1

\* One write: the INSERT into Borrowing, with what the store does on it.  Any
\* sqlite3.Error is caught after the rollback and is critical.  The clock is
\* read once for the borrow date and, `elapsed` ticks later, once more for
\* the due date; a call that fails a check does not read it.
borrow_item(member_id, item_id, elapsed, fault) ==
    LET chk == borrow_check(member_id, item_id)
        borrow_date == Day(now)
        due_date == Day(now + elapsed) + loan_days
        writes == IF chk = "ok" THEN 1 ELSE 0
        raised == Raised(fault, writes)
        done == Done(fault, writes)
        res == IF raised THEN "critical" ELSE chk
    IN
    /\ conn = "open"
    /\ chk = "ok" => Len(Borrowing) < MaxBorrowings
    /\ chk # "ok" => elapsed = 0
    /\ now + elapsed <= MaxNow
    /\ now' = now + elapsed
    /\ Borrowing' = conn_exit(raised, Borrowing,
                        IF done >= 1
                        THEN Append(Borrowing,
                                 [MemberID |-> member_id, ItemID |-> item_id,
                                  BorrowDate |-> borrow_date, DueDate |-> due_date,
                                  ReturnDate |-> NULL, FineAmount |-> NULL])
                        ELSE Borrowing)
    /\ Item' = conn_exit(raised, Item,
                   IF done >= 1 THEN Store_OnBorrowingInsert(Item, item_id) ELSE Item)
    /\ IF res = "critical" THEN handle_critical_error ELSE handle_input_error
    /\ last' = Call("borrow_item", member_id, item_id, res, Acknowledge(res),
                    Occurred(fault, writes))
    /\ UNCHANGED <<Member, session_member, Fine, Donation>>
    /\ UNCHANGED eventTables
    /\ UNCHANGED mainState

\* A fine that is always recorded as a new Fine row.
add_fine_AlwaysInsert(fine, member_id, fine_amount) ==
    Append(fine, [MemberID |-> member_id, TotalFine |-> fine_amount])

\* -------------------------------------------------------------- return_item
\* UPDATE Fine SET TotalFine = TotalFine + ? WHERE MemberID = ?   when the
\* member has a Fine row, else INSERT INTO Fine (MemberID, TotalFine).
add_fine(fine, member_id, fine_amount) ==
    IF \E k \in DOMAIN fine : fine[k].MemberID = member_id
    THEN [k \in DOMAIN fine |->
            IF fine[k].MemberID = member_id
            THEN [fine[k] EXCEPT !.TotalFine = @ + fine_amount]
            ELSE fine[k]]
    ELSE Append(fine, [MemberID |-> member_id, TotalFine |-> fine_amount])

\* The UPDATE without its condition ReturnDate IS NULL.
return_matches_AnyRow(borrowing_id) ==
    borrowing_id \in DOMAIN Borrowing

\* UPDATE Borrowing SET ReturnDate = ? WHERE BorrowingID = ? AND ReturnDate IS NULL
\* changes a row (rowcount > 0).
return_matches(borrowing_id) ==
    /\ borrowing_id \in DOMAIN Borrowing
    /\ IsNull(Borrowing[borrowing_id].ReturnDate)

\* fine_amount is the FineAmount the store holds on the row when the code
\* reads it back after the UPDATE.  A NULL FineAmount makes the comparison
\* fine_amount > 0 raise TypeError: the unit of work is rolled back and the
\* exception reaches main, which calls handle_critical_error.
\* Two writes: the UPDATE of Borrowing, which runs on every path, and the
\* UPDATE or INSERT of Fine when the fine read back is positive.
return_item(borrowing_id, fine_amount, fault) ==
    LET matched == return_matches(borrowing_id)
        type_error == matched /\ IsNull(fine_amount)
        fined == matched /\ ~IsNull(fine_amount) /\ Val(fine_amount) > 0
        writes == IF fined THEN 2 ELSE 1
        raised == Raised(fault, writes) \/ type_error
        done == Done(fault, writes)
        res == IF raised THEN "critical"
               ELSE IF ~matched THEN "borrowing_not_found_or_returned"
               ELSE "ok"
    IN
    /\ conn = "open"
    /\ Borrowing' = conn_exit(raised, Borrowing,
                        IF matched /\ done >= 1
                        THEN [Borrowing EXCEPT ![borrowing_id].ReturnDate = Some(Day(now)),
                                               ![borrowing_id].FineAmount = fine_amount]
                        ELSE Borrowing)
    /\ Item' = conn_exit(raised, Item,
                   IF matched /\ done >= 1
                   THEN Store_OnBorrowingReturn(Item, Borrowing[borrowing_id].ItemID)
                   ELSE Item)
    /\ Fine' = conn_exit(raised, Fine,
                   IF fined /\ done >= 2
                   THEN add_fine(Fine, Borrowing[borrowing_id].MemberID, Val(fine_amount))
                   ELSE Fine)
    /\ IF res = "critical" THEN handle_critical_error ELSE handle_input_error
    /\ last' = Call("return_item", borrowing_id,
                    IF res = "ok" /\ fined THEN Val(fine_amount) ELSE 0, res,
                    Acknowledge(res), Occurred(fault, writes))
    /\ UNCHANGED <<Member, session_member, Donation, now>>
    /\ UNCHANGED eventTables
    /\ UNCHANGED mainState

\* -------------------------------------------------------------- donate_item
\* Titles and types a caller may present; str.strip() of a title.
Titles == {" ", "T"}
Strip(title) == IF title = " " THEN "" ELSE title
valid_types == {"Print Book", "Online Book", "Magazine", "Journal", "CD", "Record"}
TypeInputs == {"CD", "DVD"}
ISBNInputs == {NULL, Some("X")}
Answers == {"yes", "no"}

\* donate_item that does not look at the donor's answer.
donate_check_NoConfirm(member_id, title, type, isbn, confirm) ==
    IF member_id \notin DOMAIN Member THEN "member_not_found"
    ELSE IF Member[member_id] # "Active" THEN "member_inactive"
    ELSE IF title = "" \/ Strip(title) = "" THEN "title_empty"
    ELSE IF type \notin valid_types THEN "invalid_type"
    ELSE "ok"

\* The checks of donate_item in the order of the code.  confirm is the answer
\* read from the donor when an Item with the same ISBN exists.
donate_check(member_id, title, type, isbn, confirm) ==
    IF member_id \notin DOMAIN Member THEN "member_not_found"
    ELSE IF Member[member_id] # "Active" THEN "member_inactive"
    ELSE IF title = "" \/ Strip(title) = "" THEN "title_empty"
    ELSE IF type \notin valid_types THEN "invalid_type"
    ELSE IF /\ ~IsNull(isbn)
            /\ \E k \in DOMAIN Item : Item[k].ISBN = isbn
            /\ confirm # "yes"
         THEN "cancelled"
    ELSE "ok"

\* The donor is asked to confirm, inside the unit of work, when the member,
\* title and type pass and an Item with the ISBN exists.
donate_asks(member_id, title, type, isbn, confirm) ==
    /\ donate_check(member_id, title, type, isbn, confirm) \in {"ok", "cancelled"}
    /\ ~IsNull(isbn)
    /\ \E k \in DOMAIN Item : Item[k].ISBN = isbn

\* donate_item that catches the IntegrityError inside the unit of work, which
\* then commits the writes made before the failure.
donate_item_CatchInside(member_id, title, type, isbn, reference_only, confirm, fault) ==
    LET chk == donate_check(member_id, title, type, isbn, confirm)
        writes == IF chk = "ok" THEN 2 ELSE 0
        raised == Raised(fault, writes)
        done == Done(fault, writes)
        res == IF ~raised THEN chk
               ELSE IF fault.exc = "IntegrityError" THEN "integrity_error"
               ELSE "critical"
    IN
    /\ conn = "open"
    /\ Item' = conn_exit(res = "critical", Item,
                   IF done >= 1
                   THEN Append(Item, [BorrowingStatus |-> "Available",
                                      ReferenceOnly |-> reference_only,
                                      ISBN |-> isbn])
                   ELSE Item)
    /\ Donation' = conn_exit(res = "critical", Donation,
                       IF done >= 2
                       THEN Append(Donation,
                                   [MemberID |-> member_id, ItemID |-> Len(Item) + 1])
                       ELSE Donation)
    /\ IF res = "critical" THEN handle_critical_error ELSE handle_input_error
    /\ last' = Call("donate_item", member_id, IF reference_only THEN 1 ELSE 0, res,
                    Acknowledge(res), Occurred(fault, writes))
    /\ UNCHANGED <<Member, session_member, Borrowing, Fine, now>>
    /\ UNCHANGED eventTables
    /\ UNCHANGED mainState

\* Two writes: the INSERT into Item, then the INSERT into Donation with the
\* new item's id.  An IntegrityError is reported as an input error after the
\* rollback, any other sqlite3.Error is critical.
donate_item(member_id, title, type, isbn, reference_only, confirm, fault) ==
    LET chk == donate_check(member_id, title, type, isbn, confirm)
        writes == IF chk = "ok" THEN 2 ELSE 0
        rejected == chk = "ok" /\ Store_ISBNViolation(Item, isbn)
        raised == rejected \/ Raised(fault, writes)
        done == IF rejected THEN 0 ELSE Done(fault, writes)
        res == IF ~raised THEN chk
               ELSE IF rejected \/ fault.exc = "IntegrityError" THEN "integrity_error"
               ELSE "critical"
        inputs == IF donate_asks(member_id, title, type, isbn, confirm)
                  THEN << Answer("confirm", confirm) >>
                  ELSE Acknowledge(chk)
    IN
    /\ conn = "open"
    /\ Item' = conn_exit(raised, Item,
                   IF done >= 1
                   THEN Append(Item, [BorrowingStatus |-> "Available",
                                      ReferenceOnly |-> reference_only,
                                      ISBN |-> isbn])
                   ELSE Item)
    /\ Donation' = conn_exit(raised, Donation,
                       IF done >= 2
                       THEN Append(Donation,
                                   [MemberID |-> member_id, ItemID |-> Len(Item) + 1])
                       ELSE Donation)
    /\ IF res = "critical" THEN handle_critical_error ELSE handle_input_error
    /\ last' = Call("donate_item", member_id, IF reference_only THEN 1 ELSE 0, res,
                    inputs, Occurred(fault, writes))
    /\ UNCHANGED <<Member, session_member, Borrowing, Fine, now>>
    /\ UNCHANGED eventTables
    /\ UNCHANGED mainState

\* ----------------------------------------------------------------- pay_fine
\* The admin password the reference hash was made from, and the codes a
\* caller may type.
admin_password == "LibraryAdmin123"
AdminCodes == {"LibraryAdmin123", "letmein", "cancel", "CANCEL"}
Lower(code) == IF code = "CANCEL" THEN "cancel" ELSE code

\* A verification that accepts every code.
checkpw_Any(admin_code) == TRUE

\* bcrypt.checkpw(admin_code.encode(), ADMIN_HASH)
checkpw(admin_code) == admin_code = admin_password

\* pay_fine that reports the payment and leaves the Fine row as it is.
pay_fine_NoReset(member_id, confirm, admin_code, fault) ==
    LET fine_record == SelectTotalFine(member_id)
        owes == ~IsNull(fine_record) /\ Val(fine_record) > 0
        res == IF owes /\ (confirm # "yes" \/ Lower(admin_code) = "cancel"
                           \/ ~checkpw(admin_code))
               THEN "cancelled" ELSE "ok"
        inputs == IF ~owes THEN NoInputs
                  ELSE IF confirm # "yes" THEN << Answer("confirm", confirm) >>
                  ELSE << Answer("confirm", confirm), Answer("admin_code", admin_code) >>
    IN
    /\ conn = "open"
    /\ handle_input_error
    /\ last' = Call("pay_fine", member_id,
                    IF owes /\ res = "ok" THEN Val(fine_record) ELSE 0, res, inputs, NoFault)
    /\ UNCHANGED <<Member, session_member, Item, Borrowing, Fine, Donation, now>>
    /\ UNCHANGED eventTables
    /\ UNCHANGED mainState

\* One write: the UPDATE of Fine, after the consent and the admin code were
\* read inside the unit of work.  Any sqlite3.Error is critical.
\* A payment that removes the member's Fine row instead of zeroing it.
pay_fine_DeleteRow(member_id, confirm, admin_code, fault) ==
    LET fine_record == SelectTotalFine(member_id)
        owes == ~IsNull(fine_record) /\ Val(fine_record) > 0
        chk == IF ~owes THEN "ok"
               ELSE IF confirm # "yes" THEN "cancelled"
               ELSE IF Lower(admin_code) = "cancel" THEN "cancelled"
               ELSE IF ~checkpw(admin_code) THEN "cancelled"
               ELSE "ok"
        writes == IF owes /\ chk = "ok" THEN 1 ELSE 0
        raised == Raised(fault, writes)
        done == Done(fault, writes)
        res == IF raised THEN "critical" ELSE chk
        paid == owes /\ res = "ok"
        inputs == IF ~owes THEN NoInputs
                  ELSE IF confirm # "yes" THEN << Answer("confirm", confirm) >>
                  ELSE << Answer("confirm", confirm), Answer("admin_code", admin_code) >>
    IN
    /\ conn = "open"
    /\ Fine' = conn_exit(raised, Fine,
                   IF done >= 1
                   THEN SelectSeq(Fine, LAMBDA row : row.MemberID # member_id)
                   ELSE Fine)
    /\ IF res = "critical" THEN handle_critical_error ELSE handle_input_error
    /\ last' = Call("pay_fine", member_id, IF paid THEN Val(fine_record) ELSE 0, res,
                    inputs, Occurred(fault, writes))
    /\ UNCHANGED <<Member, session_member, Item, Borrowing, Donation, now>>
    /\ UNCHANGED eventTables
    /\ UNCHANGED mainState

pay_fine(member_id, confirm, admin_code, fault) ==
    LET fine_record == SelectTotalFine(member_id)
        owes == ~IsNull(fine_record) /\ Val(fine_record) > 0
        chk == IF ~owes THEN "ok"
               ELSE IF confirm # "yes" THEN "cancelled"
               ELSE IF Lower(admin_code) = "cancel" THEN "cancelled"
               ELSE IF ~checkpw(admin_code) THEN "cancelled"
               ELSE "ok"
        writes == IF owes /\ chk = "ok" THEN 1 ELSE 0
        raised == Raised(fault, writes)
        done == Done(fault, writes)
        res == IF raised THEN "critical" ELSE chk
        paid == owes /\ res = "ok"
        inputs == IF ~owes THEN NoInputs
                  ELSE IF confirm # "yes" THEN << Answer("confirm", confirm) >>
                  ELSE << Answer("confirm", confirm), Answer("admin_code", admin_code) >>
    IN
    /\ conn = "open"
    /\ Fine' = conn_exit(raised, Fine,
                   IF done >= 1
                   THEN [k \in DOMAIN Fine |->
                            IF Fine[k].MemberID = member_id
                            THEN [Fine[k] EXCEPT !.TotalFine = 0]
                            ELSE Fine[k]]
                   ELSE Fine)
    /\ IF res = "critical" THEN handle_critical_error ELSE handle_input_error
    /\ last' = Call("pay_fine", member_id, IF paid THEN Val(fine_record) ELSE 0, res,
                    inputs, Occurred(fault, writes))
    /\ UNCHANGED <<Member, session_member, Item, Borrowing, Donation, now>>
    /\ UNCHANGED eventTables
    /\ UNCHANGED mainState

\* ----------------------------------------------------------- register_event
\* register_event that takes an event as full one attendee too late.
register_check_CapacityOffByOne(member_id, event_id) ==
    IF event_id \notin DOMAIN Event THEN "event_not_found"
    ELSE IF Event[event_id].CurrentAttendees > Event[event_id].MaxCapacity
         THEN "full_capacity"
    ELSE IF Midnight(Event[event_id].Date) < now THEN "event_occurred"
    ELSE IF member_id \notin DOMAIN Member THEN "member_not_found"
    ELSE IF Member[member_id] # "Active" THEN "member_inactive"
    ELSE IF Event_Member[<<event_id, member_id>>] > 0 THEN "already_registered"
    ELSE "ok"

\* register_event without the test of the member's status.
register_check_NoActive(member_id, event_id) ==
    IF event_id \notin DOMAIN Event THEN "event_not_found"
    ELSE IF Event[event_id].CurrentAttendees >= Event[event_id].MaxCapacity
         THEN "full_capacity"
    ELSE IF Midnight(Event[event_id].Date) < now THEN "event_occurred"
    ELSE IF member_id \notin DOMAIN Member THEN "member_not_found"
    ELSE IF Event_Member[<<event_id, member_id>>] > 0 THEN "already_registered"
    ELSE "ok"

\* register_event looking at the member before the event's capacity and date.
register_check_MemberFirst(member_id, event_id) ==
    IF event_id \notin DOMAIN Event THEN "event_not_found"
    ELSE IF member_id \notin DOMAIN Member THEN "member_not_found"
    ELSE IF Member[member_id] # "Active" THEN "member_inactive"
    ELSE IF Event_Member[<<event_id, member_id>>] > 0 THEN "already_registered"
    ELSE IF Event[event_id].CurrentAttendees >= Event[event_id].MaxCapacity
         THEN "full_capacity"
    ELSE IF Midnight(Event[event_id].Date) < now THEN "event_occurred"
    ELSE "ok"

\* The checks of register_event in the order of the code.
register_check(member_id, event_id) ==
    IF event_id \notin DOMAIN Event THEN "event_not_found"
    ELSE IF Event[event_id].CurrentAttendees >= Event[event_id].MaxCapacity
         THEN "full_capacity"
    ELSE IF Midnight(Event[event_id].Date) < now THEN "event_occurred"
    ELSE IF member_id \notin DOMAIN Member THEN "member_not_found"
    ELSE IF Member[member_id] # "Active" THEN "member_inactive"
    ELSE IF Event_Member[<<event_id, member_id>>] > 0 THEN "already_registered"
    ELSE "ok"

\* register_event that does not look for an existing registration and lets the
\* store's IntegrityError fall through to the handler of sqlite3.Error.
register_event_Unhandled(member_id, event_id, fault) ==
    LET chk == IF register_check(member_id, event_id) = "already_registered"
               THEN "ok" ELSE register_check(member_id, event_id)
        writes == IF chk = "ok" THEN 2 ELSE 0
        unique == chk = "ok" /\ Store_UniqueViolation(Event_Member, event_id, member_id)
        raised == unique \/ Raised(fault, writes)
        done == IF unique THEN 0 ELSE Done(fault, writes)
        res == IF raised THEN "critical" ELSE chk
    IN
    /\ conn = "open"
    /\ Event_Member' = conn_exit(raised, Event_Member,
                           IF done >= 1
                           THEN [Event_Member EXCEPT ![<<event_id, member_id>>] = @ + 1]
                           ELSE Event_Member)
    /\ Event' = conn_exit(raised, Event,
                    IF done >= 2
                    THEN [Event EXCEPT ![event_id].CurrentAttendees = @ + 1]
                    ELSE Event)
    /\ IF res = "critical" THEN handle_critical_error ELSE handle_input_error
    /\ last' = Call("register_event", member_id, event_id, res, Acknowledge(chk),
                    IF unique THEN NoFault ELSE Occurred(fault, writes))
    /\ UNCHANGED <<Member, session_member, Event_Member_Volunteer, now>>
    /\ UNCHANGED loanTables
    /\ UNCHANGED mainState

\* The two writes of a registration: the Event_Member INSERT, which the
\* store rejects for a pair that has a row (IntegrityError, rolled back and
\* reported as already registered), then the counter UPDATE.
\* An IntegrityError of either write is reported, after the rollback, as
\* already registered; any other sqlite3.Error is critical.
register_event(member_id, event_id, fault) ==
    LET chk == register_check(member_id, event_id)
        writes == IF chk = "ok" THEN 2 ELSE 0
        unique == chk = "ok" /\ Store_UniqueViolation(Event_Member, event_id, member_id)
        raised == unique \/ Raised(fault, writes)
        done == IF unique THEN 0 ELSE Done(fault, writes)
        res == IF ~raised THEN chk
               ELSE IF unique \/ fault.exc = "IntegrityError" THEN "already_registered"
               ELSE "critical"
    IN
    /\ conn = "open"
    /\ Event_Member' = conn_exit(raised, Event_Member,
                           IF done >= 1
                           THEN [Event_Member EXCEPT ![<<event_id, member_id>>] = @ + 1]
                           ELSE Event_Member)
    /\ Event' = conn_exit(raised, Event,
                    IF done >= 2
                    THEN [Event EXCEPT ![event_id].CurrentAttendees = @ + 1]
                    ELSE Event)
    /\ IF res = "critical" THEN handle_critical_error ELSE handle_input_error
    /\ last' = Call("register_event", member_id, event_id, res, Acknowledge(chk),
                    IF unique THEN NoFault ELSE Occurred(fault, writes))
    /\ UNCHANGED <<Member, session_member, Event_Member_Volunteer, now>>
    /\ UNCHANGED loanTables
    /\ UNCHANGED mainState

\* ------------------------------------------------ cancel_event_registration
\* cancel_event_registration without the test of the event's date.
cancel_check_NoDate(member_id, event_id) ==
    IF event_id \notin DOMAIN Event THEN "event_not_found"
    ELSE IF Event_Member[<<event_id, member_id>>] = 0 THEN "not_registered"
    ELSE "ok"

\* The checks of cancel_event_registration in the order of the code.
cancel_check(member_id, event_id) ==
    IF event_id \notin DOMAIN Event THEN "event_not_found"
    ELSE IF Midnight(Event[event_id].Date) < now THEN "event_occurred"
    ELSE IF Event_Member[<<event_id, member_id>>] = 0 THEN "not_registered"
    ELSE "ok"

\* cancel_event_registration without the UPDATE of the counter.
cancel_event_registration_NoDecrement(member_id, event_id, fault) ==
    /\ conn = "open"
    /\ Event_Member' = IF cancel_check(member_id, event_id) = "ok"
                       THEN [Event_Member EXCEPT ![<<event_id, member_id>>] = 0]
                       ELSE Event_Member
    /\ handle_input_error
    /\ last' = Call("cancel_event_registration", member_id, event_id,
                    cancel_check(member_id, event_id),
                    Acknowledge(cancel_check(member_id, event_id)), NoFault)
    /\ UNCHANGED <<Member, session_member, Event, Event_Member_Volunteer, now>>
    /\ UNCHANGED loanTables
    /\ UNCHANGED mainState

\* DELETE removes every row of the pair; the counter goes down by one when
\* the DELETE's rowcount is positive.
\* Any sqlite3.Error of the DELETE or the UPDATE is critical.
cancel_event_registration(member_id, event_id, fault) ==
    LET chk == cancel_check(member_id, event_id)
        writes == IF chk = "ok" THEN 2 ELSE 0
        raised == Raised(fault, writes)
        done == Done(fault, writes)
        res == IF raised THEN "critical" ELSE chk
    IN
    /\ conn = "open"
    /\ Event_Member' = conn_exit(raised, Event_Member,
                           IF done >= 1
                           THEN [Event_Member EXCEPT ![<<event_id, member_id>>] = 0]
                           ELSE Event_Member)
    /\ Event' = conn_exit(raised, Event,
                    IF done >= 2
                    THEN [Event EXCEPT ![event_id].CurrentAttendees = @ - 1]
                    ELSE Event)
    /\ IF res = "critical" THEN handle_critical_error ELSE handle_input_error
    /\ last' = Call("cancel_event_registration", member_id, event_id, res,
                    Acknowledge(res), Occurred(fault, writes))
    /\ UNCHANGED <<Member, session_member, Event_Member_Volunteer, now>>
    /\ UNCHANGED loanTables
    /\ UNCHANGED mainState

\* ---------------------------------------------------------- volunteer_event
Roles == {" ", "Usher"}

volunteer_check(member_id, event_id, role) ==
    IF event_id \notin DOMAIN Event THEN "event_not_found"
    ELSE IF member_id \notin DOMAIN Member THEN "member_not_found"
    ELSE IF Member[member_id] # "Active" THEN "member_inactive"
    ELSE IF role = "" \/ Strip(role) = "" THEN "role_empty"
    ELSE "ok"

\* volunteer_event without its handler of IntegrityError: the rejected INSERT
\* falls to the handler of sqlite3.Error.
volunteer_event_Unhandled(member_id, event_id, role, fault) ==
    LET chk == volunteer_check(member_id, event_id, role)
        writes == IF chk = "ok" THEN 1 ELSE 0
        unique == chk = "ok"
                  /\ Store_UniqueViolation(Event_Member_Volunteer, event_id, member_id)
        raised == unique \/ Raised(fault, writes)
        done == IF unique THEN 0 ELSE Done(fault, writes)
        res == IF raised THEN "critical" ELSE chk
    IN
    /\ conn = "open"
    /\ Event_Member_Volunteer' =
          conn_exit(raised, Event_Member_Volunteer,
              IF done >= 1
              THEN [Event_Member_Volunteer EXCEPT ![<<event_id, member_id>>] = @ + 1]
              ELSE Event_Member_Volunteer)
    /\ IF res = "critical" THEN handle_critical_error ELSE handle_input_error
    /\ last' = Call("volunteer_event", member_id, event_id, res, Acknowledge(chk),
                    IF unique THEN NoFault ELSE Occurred(fault, writes))
    /\ UNCHANGED <<Member, session_member, Event, Event_Member, now>>
    /\ UNCHANGED loanTables
    /\ UNCHANGED mainState

\* One write: the INSERT into Event_Member_Volunteer.  An IntegrityError is
\* reported, after the rollback, as already volunteering; any other
\* sqlite3.Error is critical.
volunteer_event(member_id, event_id, role, fault) ==
    LET chk == volunteer_check(member_id, event_id, role)
        writes == IF chk = "ok" THEN 1 ELSE 0
        unique == chk = "ok"
                  /\ Store_UniqueViolation(Event_Member_Volunteer, event_id, member_id)
        raised == unique \/ Raised(fault, writes)
        done == IF unique THEN 0 ELSE Done(fault, writes)
        res == IF ~raised THEN chk
               ELSE IF unique \/ fault.exc = "IntegrityError" THEN "already_volunteering"
               ELSE "critical"
    IN
    /\ conn = "open"
    /\ Event_Member_Volunteer' =
          conn_exit(raised, Event_Member_Volunteer,
              IF done >= 1
              THEN [Event_Member_Volunteer EXCEPT ![<<event_id, member_id>>] = @ + 1]
              ELSE Event_Member_Volunteer)
    /\ IF res = "critical" THEN handle_critical_error ELSE handle_input_error
    /\ last' = Call("volunteer_event", member_id, event_id, res, Acknowledge(chk),
                    IF unique THEN NoFault ELSE Occurred(fault, writes))
    /\ UNCHANGED <<Member, session_member, Event, Event_Member, now>>
    /\ UNCHANGED loanTables
    /\ UNCHANGED mainState

\* -------------------------------------------------------------------- clock
\* Time passes between two calls.
Tick ==
    /\ conn = "open"
    /\ now < MaxNow
    /\ now' = now + 1
    /\ last' = Call("tick", 0, 0, "none", NoInputs, NoFault)
    /\ UNCHANGED <<Member, session_member, conn>>
    /\ UNCHANGED mainState
    /\ UNCHANGED loanTables
    /\ UNCHANGED eventTables

\* --------------------------------------------------------------------- main
\* range(3) of admin_login.
max_attempts_Four == 2 + 2

max_attempts == 3

\* Choice 1 of main: the member id is looked up; member_menu opens when the
\* Member table has a row for it.
main_member_login(member_id) ==
    LET res == IF member_id \in DOMAIN Member THEN "ok" ELSE "member_not_found" IN
    /\ conn = "open"
    /\ pc = "main"
    /\ pc' = IF res = "ok" THEN "member_menu" ELSE "main"
    /\ session_member' = IF res = "ok" THEN member_id ELSE session_member
    /\ handle_input_error
    /\ last' = Call("member_login", member_id, 0, res, Acknowledge(res), NoFault)
    /\ UNCHANGED <<Member, now, attempt>>
    /\ UNCHANGED loanTables
    /\ UNCHANGED eventTables

\* Choice 2 of main: admin_login starts its loop.
main_admin_login ==
    /\ conn = "open"
    /\ pc = "main"
    /\ pc' = "admin_login"
    /\ attempt' = 0
    /\ last' = Call("admin_login", 0, 0, "asking", NoInputs, NoFault)
    /\ UNCHANGED <<Member, session_member, now, conn>>
    /\ UNCHANGED loanTables
    /\ UNCHANGED eventTables

\* One pass of the loop of admin_login: a code is read; cancel returns False,
\* a code that verifies returns True and main shows the records, and the loop
\* ends with False when max_attempts codes were read.
admin_login(admin_code) ==
    LET res == IF Lower(admin_code) = "cancel" THEN "false"
               ELSE IF checkpw(admin_code) THEN "true"
               ELSE IF attempt + 1 >= max_attempts THEN "false"
               ELSE "asking"
    IN
    /\ conn = "open"
    /\ pc = "admin_login"
    /\ attempt < max_attempts
    /\ attempt' = attempt + 1
    /\ pc' = IF res = "true" THEN "admin_view"
             ELSE IF res = "false" THEN "main"
             ELSE "admin_login"
    /\ last' = Call("admin_login", attempt + 1, 0, res,
                    Append(last.inputs, Answer("admin_code", admin_code)), NoFault)
    /\ UNCHANGED <<Member, session_member, now, conn>>
    /\ UNCHANGED loanTables
    /\ UNCHANGED eventTables

\* After display_all_records: the switch to normal user mode opens member_menu
\* with the id typed, which is not looked up.
admin_switch(switch, member_id) ==
    /\ conn = "open"
    /\ pc = "admin_view"
    /\ pc' = IF switch = "yes" THEN "member_menu" ELSE "main"
    /\ session_member' = IF switch = "yes" THEN member_id ELSE session_member
    /\ last' = Call("admin_switch", member_id, 0, "none", NoInputs, NoFault)
    /\ UNCHANGED <<Member, now, conn, attempt>>
    /\ UNCHANGED loanTables
    /\ UNCHANGED eventTables

\* Choice 12 of member_menu: back to main.
menu_exit ==
    /\ conn = "open"
    /\ pc = "member_menu"
    /\ pc' = "main"
    /\ last' = Call("menu_exit", session_member, 0, "none", NoInputs, NoFault)
    /\ UNCHANGED <<Member, session_member, now, conn, attempt>>
    /\ UNCHANGED loanTables
    /\ UNCHANGED eventTables

\* Choice 3 of main: the loop ends and the connection is closed.
main_exit ==
    /\ conn = "open"
    /\ pc = "main"
    /\ pc' = "exited"
    /\ conn' = "closed"
    /\ last' = Call("exit", 0, 0, "none", NoInputs, NoFault)
    /\ UNCHANGED <<Member, session_member, now, attempt>>
    /\ UNCHANGED loanTables
    /\ UNCHANGED eventTables

\* ------------------------------------------------------------ specification
BorrowItem ==
    \E m \in MemberInputs, i \in ItemInputs, el \in Elapsed : borrow_item(m, i, el, NoFault)
ReturnItem == \E b \in BorrowingInputs, fa \in FineAmounts : return_item(b, fa, NoFault)
\* Arguments of a donation: every title and type without an ISBN, and every
\* ISBN, reference-only flag and confirmation answer with a valid title and type.
DonateInputs ==
    {<<t, ty, NULL, FALSE, "no">> : t \in Titles, ty \in TypeInputs}
    \cup {<<"T", "CD", isbn, ro, c>> : isbn \in ISBNInputs, ro \in BOOLEAN, c \in Answers}

DonateItem ==
    \E m \in MemberInputs, d \in DonateInputs :
        donate_item(m, d[1], d[2], d[3], d[4], d[5], NoFault)

\* Answers of a payment: a refusal, and a consent with every admin code.
PayInputs == {<<"no", admin_password>>} \cup {<<"yes", code>> : code \in AdminCodes}

PayFine == \E m \in MemberInputs, p \in PayInputs : pay_fine(m, p[1], p[2], NoFault)
RegisterForEvent ==
    \E m \in MemberInputs, e \in EventInputs : register_event(m, e, NoFault)
CancelRegistration ==
    \E m \in MemberInputs, e \in EventInputs : cancel_event_registration(m, e, NoFault)
VolunteerForEvent ==
    \E m \in MemberInputs, e \in EventInputs, r \in Roles :
        volunteer_event(m, e, r, NoFault)

RECURSIVE Excess(_, _)
Excess(f, S) ==
    IF S = {} THEN 0
    ELSE LET x == CHOOSE y \in S : TRUE IN (f[x] - 1) + Excess(f, S \ {x})

\* Number of rows of a join table kept as a count per pair.
Rows(f) ==
    Cardinality({p \in DOMAIN f : f[p] > 0}) + Excess(f, {p \in DOMAIN f : f[p] > 1})

RowCount(borrowing, fine, donation, event_member, volunteer) ==
    Len(borrowing) + Len(fine) + Len(donation) + Rows(event_member) + Rows(volunteer)

WithinRows ==
    RowCount(Borrowing', Fine', Donation', Event_Member', Event_Member_Volunteer')
        <= MaxRows

\* One member session: member_menu calls every operation with the member id
\* it was entered with, on a store that holds at most MaxRows written rows.
InMenu == pc = "member_menu"

MenuBorrow ==
    InMenu /\ \E i \in ItemInputs, el \in Elapsed :
                 borrow_item(session_member, i, el, NoFault)
MenuReturn ==
    InMenu /\ \E b \in BorrowingInputs, fa \in FineAmounts : return_item(b, fa, NoFault)
MenuDonate ==
    InMenu /\ \E d \in DonateInputs :
                 donate_item(session_member, d[1], d[2], d[3], d[4], d[5], NoFault)
MenuPayFine ==
    InMenu /\ \E p \in PayInputs : pay_fine(session_member, p[1], p[2], NoFault)
MenuRegister ==
    InMenu /\ \E e \in EventInputs : register_event(session_member, e, NoFault)
MenuCancel ==
    InMenu /\ \E e \in EventInputs : cancel_event_registration(session_member, e, NoFault)
MenuVolunteer ==
    InMenu /\ \E e \in EventInputs, r \in Roles :
                 volunteer_event(session_member, e, r, NoFault)

Next ==
    \/ MenuBorrow /\ WithinRows
    \/ MenuReturn /\ WithinRows
    \/ MenuDonate /\ WithinRows
    \/ MenuPayFine /\ WithinRows
    \/ MenuRegister /\ WithinRows
    \/ MenuCancel /\ WithinRows
    \/ MenuVolunteer /\ WithinRows
    \/ Tick

Spec == Init /\ [][Next]_vars

\* Calls of the operations with any member id, outside of one session.
InitCalls == Init /\ session_member = 1

\* Borrowing, returning and paying fines on the provisioned items.
NextLoans ==
    \/ BorrowItem
    \/ ReturnItem
    \/ PayFine

SpecLoans == InitCalls /\ [][NextLoans]_vars

\* The event side alone, with the clock.
NextEvents ==
    \/ RegisterForEvent
    \/ CancelRegistration
    \/ VolunteerForEvent
    \/ Tick

SpecEvents == InitCalls /\ [][NextEvents]_vars

\* main from the start of the program: the two logins, the member menu with
\* its event operations, and the exit.
MemberLogin == \E m \in MemberInputs : main_member_login(m)
AdminLogin == \E code \in AdminCodes : admin_login(code)
AdminSwitch == \E sw \in Answers, m \in MemberInputs : admin_switch(sw, m)

NextMain ==
    \/ MemberLogin
    \/ main_admin_login
    \/ AdminLogin
    \/ AdminSwitch
    \/ MenuRegister /\ WithinRows
    \/ MenuVolunteer /\ WithinRows
    \/ menu_exit
    \/ main_exit

SpecMain == InitMain /\ [][NextMain]_vars

\* One member session in which a write of any call may fail in the store.
FaultyBorrow ==
    \E i \in ItemInputs, el \in Elapsed, f \in Faults :
        borrow_item(session_member, i, el, f)
FaultyReturn ==
    \E b \in BorrowingInputs, fa \in FineAmounts, f \in Faults : return_item(b, fa, f)
FaultyDonate ==
    \E d \in DonateInputs, f \in Faults :
        donate_item(session_member, d[1], d[2], d[3], d[4], d[5], f)
FaultyPayFine ==
    \E p \in PayInputs, f \in Faults : pay_fine(session_member, p[1], p[2], f)
FaultyRegister ==
    \E e \in EventInputs, f \in Faults : register_event(session_member, e, f)
FaultyCancel ==
    \E e \in EventInputs, f \in Faults : cancel_event_registration(session_member, e, f)
FaultyVolunteer ==
    \E e \in EventInputs, r \in Roles, f \in Faults :
        volunteer_event(session_member, e, r, f)

NextFaults ==
    \/ FaultyBorrow /\ WithinRows
    \/ FaultyReturn /\ WithinRows
    \/ FaultyDonate /\ WithinRows
    \/ FaultyPayFine /\ WithinRows
    \/ FaultyRegister /\ WithinRows
    \/ FaultyCancel /\ WithinRows
    \/ FaultyVolunteer /\ WithinRows

SpecFaults == InitCalls /\ [][NextFaults]_vars

\* ================================================================== claims
\* The Fine total of a member: the sum of the member's Fine rows.
RECURSIVE SumFine(_, _)
SumFine(fine, member_id) ==
    IF fine = << >> THEN 0
    ELSE (IF Head(fine).MemberID = member_id THEN Head(fine).TotalFine ELSE 0)
         + SumFine(Tail(fine), member_id)

FineTotal(member_id) == SumFine(Fine, member_id)

IsBorrow(call) == call.op = "borrow_item"
Failed(call) == Outcome(call.res) = "InputError"

\* C1: every item has at most one Borrowing with a null return date, and a
\* BorrowItem on an item that has an open Borrowing fails with an InputError
\* (already borrowed, when nothing earlier in the order fails) and inserts no
\* Borrowing row.
AtMostOneOpen(borrowing) ==
    \A i \in 1..(Len(Item) + 1) : Cardinality(OpenBorrowings(borrowing, i)) <= 1

FirstViolated(member_id, item_id) ==
    IF member_id \notin DOMAIN Member THEN "member_not_found"
    ELSE IF Member[member_id] # "Active" THEN "member_inactive"
    ELSE IF FineTotal(member_id) > 0 THEN "outstanding_fine"
    ELSE IF item_id \notin DOMAIN Item THEN "item_not_found"
    ELSE IF Item[item_id].ReferenceOnly THEN "reference_only"
    ELSE IF OpenBorrowings(Borrowing, item_id) # {} THEN "already_borrowed"
    ELSE "ok"

C3_FineGating ==
    [][(IsBorrow(last') /\ FineTotal(last'.a) > 0)
         => (Failed(last') /\ Borrowing' = Borrowing)]_vars

\* A member with a positive Fine was refused an item that is free to borrow.
C3_Witness ==
    /\ IsBorrow(last)
    /\ Failed(last)
    /\ FineTotal(last.a) > 0
    /\ last.b \in DOMAIN Item
    /\ ~Item[last.b].ReferenceOnly
    /\ OpenBorrowings(Borrowing, last.b) = {}

\* C4: no BorrowItem creates a Borrowing for an item whose reference-only flag
\* is set, whoever asks and whatever the item's status; an item donated with
\* referenceOnly = true carries the flag.
C4_ReferenceOnly ==
    [][/\ (IsBorrow(last') /\ last'.b \in DOMAIN Item /\ Item[last'.b].ReferenceOnly)
            => (Failed(last') /\ Borrowing' = Borrowing)
       /\ (last'.op = "donate_item" /\ last'.res = "ok" /\ last'.b = 1)
            => (Len(Item') = Len(Item) + 1 /\ Item'[Len(Item')].ReferenceOnly)
       /\ \A k \in DOMAIN Borrowing' : ~Item'[Borrowing'[k].ItemID].ReferenceOnly]_vars

\* An Active member without a fine was refused a donated reference-only item.
C4_Witness ==
    /\ IsBorrow(last)
    /\ last.res = "reference_only"
    /\ \E d \in DOMAIN Donation : Donation[d].ItemID = last.b

\* C5: BorrowItem, DonateItem, RegisterForEvent and VolunteerForEvent called for
\* a member whose status is not Active fail with an InputError and write nothing.
NeedsActive == {"borrow_item", "donate_item", "register_event", "volunteer_event"}

C5_ActiveOnly ==
    [][(/\ last'.op \in NeedsActive
        /\ last'.a \in DOMAIN Member
        /\ Member[last'.a] # "Active")
         => (/\ Failed(last')
             /\ UNCHANGED loanTables
             /\ UNCHANGED eventTables)]_vars

\* An Inactive member was refused a registration for an open, future event.
C5_Witness ==
    /\ last.op = "register_event"
    /\ last.res = "member_inactive"
    /\ Member[last.a] = "Inactive"

\* C6: ReturnItem with an id that has no Borrowing, or whose Borrowing has a
\* return date, fails with an InputError and leaves Borrowing and Fine as they
\* were; a Borrowing that has a return date never changes again.
C6_ReturnOnce ==
    [][/\ (/\ last'.op = "return_item"
           /\ (\/ last'.a \notin DOMAIN Borrowing
               \/ ~IsNull(Borrowing[last'.a].ReturnDate)))
            => (Failed(last') /\ Borrowing' = Borrowing /\ Fine' = Fine)
       /\ \A k \in DOMAIN Borrowing :
            ~IsNull(Borrowing[k].ReturnDate) => Borrowing'[k] = Borrowing[k]]_vars

\* A Borrowing returned with a fine was presented for return a second time.
C6_Witness ==
    /\ last.op = "return_item"
    /\ Failed(last)
    /\ last.a \in DOMAIN Borrowing
    /\ ~IsNull(Borrowing[last.a].FineAmount)
    /\ Val(Borrowing[last.a].FineAmount) > 0

\* C7: a ReturnItem on an open Borrowing succeeds and sets its return date;
\* a positive stored fine is added to the Fine total of the Borrowing's member
\* (one row, created if the member had none); a stored fine that is zero or
\* absent applies nothing; no other member's Fine changes.
FineOfOthers(fine, member_id) == [k \in {j \in DOMAIN fine : fine[j].MemberID # member_id} |-> fine[k]]

C7_ReturnAppliesFine ==
    [][(last'.op = "return_item" /\ return_matches(last'.a))
         => LET b == last'.a
                m == Borrowing[b].MemberID
                stored == Borrowing'[b].FineAmount
            IN /\ Outcome(last'.res) = "Success"
               /\ ~IsNull(Borrowing'[b].ReturnDate)
               /\ IF ~IsNull(stored) /\ Val(stored) > 0
                  THEN /\ SumFine(Fine', m) = SumFine(Fine, m) + Val(stored)
                       /\ Cardinality({k \in DOMAIN Fine' : Fine'[k].MemberID = m}) = 1
                       /\ last'.b = Val(stored)
                  ELSE /\ Fine' = Fine
                       /\ last'.b = 0
               /\ FineOfOthers(Fine', m) = FineOfOthers(Fine, m)]_vars

\* C8: a successful RegisterForEvent raises the event's attendee count by
\* exactly 1, and no event's attendee count exceeds its max capacity.
WithinCapacity(event) ==
    \A e \in DOMAIN event : event[e].CurrentAttendees <= event[e].MaxCapacity

C8_Capacity ==
    /\ WithinCapacity(Event)
    /\ [][/\ WithinCapacity(Event')
          /\ (last'.op = "register_event" /\ last'.res = "ok")
               => Event'[last'.b].CurrentAttendees = Event[last'.b].CurrentAttendees + 1]_vars

\* A registration succeeded and filled its event.
C8_Witness ==
    /\ last.op = "register_event"
    /\ last.res = "ok"
    /\ Event[last.b].CurrentAttendees = Event[last.b].MaxCapacity

\* C9: RegisterForEvent by a member who is registered for the event gets an
\* InputError and changes neither the registrations nor the attendee count;
\* no (event, member) pair has more than one Event_Member row.
C9_NoDoubleRegistration ==
    /\ \A p \in DOMAIN Event_Member : Event_Member[p] <= 1
    /\ [][/\ \A p \in DOMAIN Event_Member' : Event_Member'[p] <= 1
          /\ (/\ last'.op = "register_event"
              /\ last'.b \in DOMAIN Event
              /\ Event_Member[<<last'.b, last'.a>>] > 0)
               => (Failed(last') /\ Event_Member' = Event_Member /\ Event' = Event)]_vars

\* A registered member asked again for an event that still had room and was
\* told they are already registered.
C9_Witness ==
    /\ last.op = "register_event"
    /\ last.res = "already_registered"
    /\ Event_Member[<<last.b, last.a>>] = 1

\* C10: each event's attendee count equals its number of Event_Member rows.
Registrations(event_id) ==
    Rows([p \in {q \in DOMAIN Event_Member : q[1] = event_id} |-> Event_Member[p]])

C10_CounterMatchesRows ==
    \A e \in DOMAIN Event : Event[e].CurrentAttendees = Registrations(e)

\* A registration was cancelled while another member stays registered.
C10_Witness ==
    /\ last.op = "cancel_event_registration"
    /\ last.res = "ok"
    /\ Event[last.b].CurrentAttendees = 1

\* C11: RegisterForEvent reports the first violated precondition in the order
\* event exists, attendees below capacity, event date not in the past, member
\* exists, member Active, member not registered; a full event is refused as
\* full, with its attendee count and the registrations unchanged, whoever the
\* member is.  (An event dated today may pass or fail the date test here.)
MemberViolated(member_id, event_id) ==
    IF member_id \notin DOMAIN Member THEN "member_not_found"
    ELSE IF Member[member_id] # "Active" THEN "member_inactive"
    ELSE IF Event_Member[<<event_id, member_id>>] > 0 THEN "already_registered"
    ELSE "ok"

C11_RegisterPrecedence ==
    [][last'.op = "register_event"
         => LET m == last'.a
                e == last'.b
                r == last'.res
            IN IF e \notin DOMAIN Event THEN r = "event_not_found"
               ELSE IF Event[e].CurrentAttendees >= Event[e].MaxCapacity
                    THEN /\ r = "full_capacity"
                         /\ Failed(last')
                         /\ Event' = Event
                         /\ Event_Member' = Event_Member
               ELSE IF Event[e].Date < Day(now) THEN r = "event_occurred"
               ELSE IF r = "event_occurred" THEN Event[e].Date = Day(now)
               ELSE r = MemberViolated(m, e)]_vars

\* A member who is registered for a full event asked again and was told the
\* event is full.
C11_Witness ==
    /\ last.op = "register_event"
    /\ last.res = "full_capacity"
    /\ Event_Member[<<last.b, last.a>>] > 0

\* C12: a successful CancelRegistration removes the one Event_Member row of
\* that member and event and lowers that event's attendee count by exactly 1,
\* changing no other event, registration or volunteer row; CancelRegistration
\* for an event dated before today fails and changes nothing.
C12_CancelExact ==
    [][last'.op = "cancel_event_registration"
         => LET m == last'.a
                e == last'.b
            IN /\ last'.res = "ok"
                    => /\ Event_Member[<<e, m>>] = 1
                       /\ Event_Member' = [Event_Member EXCEPT ![<<e, m>>] = 0]
                       /\ Event' = [Event EXCEPT ![e].CurrentAttendees = @ - 1]
                       /\ Event_Member_Volunteer' = Event_Member_Volunteer
               /\ (e \in DOMAIN Event /\ Event[e].Date < Day(now))
                    => (Failed(last') /\ UNCHANGED eventTables)]_vars

\* A member cancelled one of two registrations held for the same event.
C12_Witness ==
    /\ last.op = "cancel_event_registration"
    /\ last.res = "ok"
    /\ Event_Member[<<last.b, last.a>>] = 0
    /\ \E m \in MemberInputs : Event_Member[<<last.b, m>>] = 1

\* C13: RegisterForEvent and CancelRegistration reject an event as already
\* occurred only when it is dated before the current day; an event dated today
\* passes the date test at any time of the day.
C13_DateNotBeforeToday ==
    [][(/\ last'.op \in {"register_event", "cancel_event_registration"}
        /\ last'.res = "event_occurred")
         => Event[last'.b].Date < Day(now)]_vars

\* C14: a PayFine that is confirmed and given the admin password, for a member
\* whose Fine total is positive, sets that total to 0 and reports the prior
\* total as the amount paid; a PayFine for a member with no Fine row or a
\* total of 0 succeeds with amount 0, changes no row and asks for nothing.
Authorized == << Answer("confirm", "yes"), Answer("admin_code", admin_password) >>

C14_PayFineClears ==
    [][last'.op = "pay_fine"
         => LET m == last'.a IN
            /\ (FineTotal(m) > 0 /\ last'.inputs = Authorized)
                 => /\ Outcome(last'.res) = "Success"
                    /\ SumFine(Fine', m) = 0
                    /\ last'.b = FineTotal(m)
                    /\ FineOfOthers(Fine', m) = FineOfOthers(Fine, m)
            /\ FineTotal(m) = 0
                 => /\ Outcome(last'.res) = "Success"
                    /\ last'.b = 0
                    /\ Fine' = Fine
                    /\ last'.inputs = NoInputs]_vars

\* A fine was paid in full.
C14_Witness ==
    /\ last.op = "pay_fine"
    /\ last.res = "ok"
    /\ last.b > 0
    /\ last.inputs = Authorized
    /\ FineRowsOf(last.a) # {}
    /\ FineTotal(last.a) = 0

\* C15: a member's Fine total goes down only in a PayFine call for that member
\* in which the payment was confirmed and the admin password was presented,
\* and then it goes to 0; a PayFine that is declined, cancelled or given a
\* wrong admin code leaves every Fine row as it was.
C15_OnlyAuthorizedReset ==
    [][/\ \A m \in MemberInputs :
            SumFine(Fine', m) < SumFine(Fine, m)
              => /\ last'.op = "pay_fine"
                 /\ last'.a = m
                 /\ last'.inputs = Authorized
                 /\ SumFine(Fine', m) = 0
       /\ (last'.op = "pay_fine" /\ last'.inputs # Authorized) => Fine' = Fine]_vars

\* A payment with a wrong admin code was turned down and the fine stands.
C15_Witness ==
    /\ last.op = "pay_fine"
    /\ last.inputs = << Answer("confirm", "yes"), Answer("admin_code", "letmein") >>
    /\ Outcome(last.res) = "False"
    /\ FineTotal(last.a) > 0

\* C16: an admin login reads at most 3 codes; it ends with true only when one
\* of the codes read is the admin password, ends with false at once when
\* cancel is typed, and ends with false when 3 codes were read and none is the
\* password; main shows the admin records only after a login that ended true.
C16_AdminAuthentication ==
    [][/\ last'.op = "admin_login"
            => LET typed == last'.inputs
                   n == Len(typed)
               IN /\ n <= 3
                  /\ last'.res = "true"
                       => \E k \in 1..n : typed[k].answer = admin_password
                  /\ (n >= 1 /\ typed[n].answer \in {"cancel", "CANCEL"})
                       => (last'.res = "false" /\ pc' = "main")
                  /\ (n = 3 /\ \A k \in 1..n : typed[k].answer # admin_password)
                       => (last'.res = "false" /\ pc' = "main")
                  /\ last'.res \in {"true", "false"} <=> pc' # "admin_login"
       /\ pc' = "admin_view"
            => (last'.op = "admin_login" /\ last'.res = "true")]_vars

\* Three wrong codes were typed and the login was refused.
C16_Witness ==
    /\ last.op = "admin_login"
    /\ last.res = "false"
    /\ Len(last.inputs) = 3
    /\ \A k \in 1..3 : last.inputs[k].answer = "letmein"
    /\ pc = "main"

\* C17: a call that does not succeed leaves every table as it found it, also
\* when its second write is the statement that fails; every Item beyond the
\* provisioned ones has its Donation row, and every change of an event's
\* registrations comes with the same change of its attendee count.
RegistrationsIn(event_member, event_id) ==
    Rows([p \in {q \in DOMAIN event_member : q[1] = event_id} |-> event_member[p]])

DonationsPaired(item, donation) ==
    /\ Len(item) = 2 + Len(donation)
    /\ \A k \in DOMAIN donation : donation[k].ItemID = 2 + k

C17_AllOrNothing ==
    /\ DonationsPaired(Item, Donation)
    /\ [][/\ last'.res # "ok" => (UNCHANGED loanTables /\ UNCHANGED eventTables)
          /\ DonationsPaired(Item', Donation')
          /\ \A e \in DOMAIN Event :
                Event'[e].CurrentAttendees - Event[e].CurrentAttendees
                  = RegistrationsIn(Event_Member', e) - RegistrationsIn(Event_Member, e)]_vars

\* The Donation INSERT of a donation failed after its Item INSERT, and the
\* store holds no Item without a Donation.
C17_Witness ==
    /\ last.op = "donate_item"
    /\ last.fault.write = 2
    /\ last.res = "integrity_error"
    /\ DonationsPaired(Item, Donation)
    /\ conn = "open"

\* C18: when a borrow, return, donation, registration, cancellation,
\* volunteering or fine payment ends with an InputError, every table is as it
\* was before the call.
Mutating == {"borrow_item", "return_item", "donate_item", "register_event",
             "cancel_event_registration", "volunteer_event", "pay_fine"}

C18_InputErrorNoChange ==
    [][(last'.op \in Mutating /\ Outcome(last'.res) = "InputError")
         => /\ Member' = Member
            /\ UNCHANGED loanTables
            /\ UNCHANGED eventTables]_vars

\* A member who volunteers for an event asked again: the INSERT was rejected
\* by the store and reported as an input error.
C18_Witness ==
    /\ last.op = "volunteer_event"
    /\ last.res = "already_volunteering"
    /\ Outcome(last.res) = "InputError"
    /\ Event_Member_Volunteer[<<last.b, last.a>>] = 1

\* C19: no borrow, return, donation, registration, cancellation, volunteering
\* or fine payment reads anything from the user between the start of its unit
\* of work and the commit or rollback.
C19_NoInputInUnitOfWork ==
    last.op \in Mutating => last.inputs = NoInputs

\* C20: when a call ends with a Fatal outcome the connection is closed, the
\* call has changed no table, and no further step is taken.
C20_FatalTerminates ==
    /\ [](Outcome(last.res) = "Fatal" => conn = "closed")
    /\ [][/\ Outcome(last.res) # "Fatal"
          /\ Outcome(last'.res) = "Fatal"
               => /\ conn' = "closed"
                  /\ Member' = Member
                  /\ UNCHANGED loanTables
                  /\ UNCHANGED eventTables]_vars

\* The counter UPDATE of a registration failed in the store: the call was
\* rolled back and the connection is closed.
C20_Witness ==
    /\ last.op = "register_event"
    /\ last.fault = [write |-> 2, exc |-> "OperationalError"]
    /\ Outcome(last.res) = "Fatal"
    /\ conn = "closed"
    /\ Event_Member[<<last.b, last.a>>] = 0

\* C21: a successful DonateItem adds exactly one Item and exactly one Donation
\* that names the new Item and the donor; when an Item with the ISBN exists
\* and the donor does not confirm, neither is added; when the donor confirms,
\* the donation is made like any other.
DonatedOne(member_id) ==
    /\ Len(Item') = Len(Item) + 1
    /\ SubSeq(Item', 1, Len(Item)) = Item
    /\ Donation' = Append(Donation, [MemberID |-> member_id, ItemID |-> Len(Item')])

C21_DonationPair ==
    [][last'.op = "donate_item"
         => /\ last'.res = "ok" => DonatedOne(last'.a)
            /\ last'.res # "ok" => (Item' = Item /\ Donation' = Donation)
            /\ last'.inputs = << Answer("confirm", "no") >>
                 => (Outcome(last'.res) = "False" /\ Item' = Item /\ Donation' = Donation)
            /\ last'.inputs = << Answer("confirm", "yes") >>
                 => (Outcome(last'.res) = "Success" /\ DonatedOne(last'.a))]_vars

\* A donor confirmed the donation of an Item whose ISBN another Item has.
C21_Witness ==
    /\ last.op = "donate_item"
    /\ last.res = "ok"
    /\ last.inputs = << Answer("confirm", "yes") >>
    /\ Donation # << >>
    /\ \E k \in 1..(Len(Item) - 1) : Item[k].ISBN = Item[Len(Item)].ISBN

\* C22: every Borrowing row created by BorrowItem has a null return date and
\* a due date exactly 7 days after its borrow date, at whatever moment the
\* call is made.
C22_DueAfterSevenDays ==
    [][(IsBorrow(last') /\ last'.res = "ok")
         => LET row == Borrowing'[Len(Borrowing')] IN
            /\ Len(Borrowing') = Len(Borrowing) + 1
            /\ IsNull(row.ReturnDate)
            /\ row.DueDate = row.BorrowDate + 7]_vars

\* C23: VolunteerForEvent by a member who volunteers for the event fails with
\* an InputError and adds no row; no (event, member) pair has more than one
\* Event_Member_Volunteer row; a first call by an Active member for an
\* existing event, with a role that is not empty, adds exactly one row.
OneVolunteerRow(volunteer) == \A p \in DOMAIN volunteer : volunteer[p] <= 1

C23_VolunteerOnce ==
    /\ OneVolunteerRow(Event_Member_Volunteer)
    /\ [][/\ OneVolunteerRow(Event_Member_Volunteer')
          /\ last'.op = "volunteer_event"
               => LET m == last'.a
                      e == last'.b
                  IN /\ (e \in DOMAIN Event /\ Event_Member_Volunteer[<<e, m>>] > 0)
                          => /\ Failed(last')
                             /\ Event_Member_Volunteer' = Event_Member_Volunteer
                     /\ (/\ e \in DOMAIN Event
                         /\ m \in DOMAIN Member
                         /\ Member[m] = "Active"
                         /\ Event_Member_Volunteer[<<e, m>>] = 0
                         /\ last'.res # "role_empty")
                          => /\ last'.res = "ok"
                             /\ Event_Member_Volunteer' =
                                  [Event_Member_Volunteer EXCEPT ![<<e, m>>] = 1]]_vars

\* A member who volunteers for both events asked again for one of them.
C23_Witness ==
    /\ last.op = "volunteer_event"
    /\ last.res = "already_volunteering"
    /\ \A e \in DOMAIN Event : Event_Member_Volunteer[<<e, last.a>>] = 1

\* C24: every member has at most one Fine row, and no Fine total is negative.
C24_OneFineRow ==
    /\ \A m \in MemberInputs : Cardinality(FineRowsOf(m)) <= 1
    /\ \A k \in DOMAIN Fine : Fine[k].TotalFine >= 0

\* A member was fined on a second return, and the fine went to the row the
\* member has.
C24_Witness ==
    /\ last.op = "return_item"
    /\ last.res = "ok"
    /\ last.b > 0
    /\ \E m \in MemberInputs :
          /\ Cardinality(FineRowsOf(m)) = 1
          /\ Cardinality({k \in DOMAIN Borrowing :
                            /\ Borrowing[k].MemberID = m
                            /\ ~IsNull(Borrowing[k].FineAmount)
                            /\ Val(Borrowing[k].FineAmount) > 0}) = 2

BorrowingStatuses == {"Available", "Borrowed"}

\* C25: whatever the stored BorrowingStatus of a non-reference-only item is,
\* the item checks of BorrowItem pass exactly when the item has no open
\* Borrowing.
C25_BorrowableWithoutFlag ==
    \A i \in DOMAIN Item : \A s \in BorrowingStatuses :
        ~Item[i].ReferenceOnly
          => (item_check([Item EXCEPT ![i].BorrowingStatus = s], i) = "ok"
                <=> OpenBorrowings(Borrowing, i) = {})

\* The one row a successful cancellation deletes.
DeletedOneRegistration(before, after, event_id, member_id) ==
    /\ before[<<event_id, member_id>>] = 1
    /\ after = [before EXCEPT ![<<event_id, member_id>>] = 0]

\* C26: no step removes a row of Borrowing, Donation, Fine or
\* Event_Member_Volunteer (nor of Member, Item or Event); a step that removes
\* an Event_Member row is a successful CancelRegistration, and a successful
\* CancelRegistration removes exactly the one row of its member and event.
C26_OnlyCancelDeletes ==
    [][/\ Len(Borrowing') >= Len(Borrowing)
       /\ Len(Donation') >= Len(Donation)
       /\ Len(Fine') >= Len(Fine)
       /\ Len(Item') >= Len(Item)
       /\ DOMAIN Member' = DOMAIN Member
       /\ DOMAIN Event' = DOMAIN Event
       /\ \A p \in DOMAIN Event_Member_Volunteer :
             Event_Member_Volunteer'[p] >= Event_Member_Volunteer[p]
       /\ (\E p \in DOMAIN Event_Member : Event_Member'[p] < Event_Member[p])
             => (last'.op = "cancel_event_registration" /\ last'.res = "ok")
       /\ (last'.op = "cancel_event_registration" /\ last'.res = "ok")
             => DeletedOneRegistration(Event_Member, Event_Member', last'.b, last'.a)]_vars

\* A registration was cancelled and the member's volunteer row for the same
\* event stayed.
C26_Witness ==
    /\ last.op = "cancel_event_registration"
    /\ last.res = "ok"
    /\ Event_Member[<<last.b, last.a>>] = 0
    /\ Event_Member_Volunteer[<<last.b, last.a>>] = 1

\* C27: whenever the member menu is open, the member id of the session has a
\* row in the Member table.
C27_SessionMemberExists ==
    pc = "member_menu" => session_member \in DOMAIN Member

====
